---- MODULE Spec2Model ----
(***************************************************************************)
(* A model of nut_webgui's shared device store, its command cache and the  *)
(* daemon-facing HTTP handlers (src/nut_webgui/src/http/commands.rs and    *)
(* src/nut_webgui/src/http/json.rs).                                       *)
(*                                                                         *)
(* Every request is an asynchronous task.  A task's step runs from one     *)
(* suspension point (.await) of the handler to the next; the tokio RwLock  *)
(* around the store (rs.state) is modelled by the variable lock, so the    *)
(* statements of a write section are separate steps that other tasks may   *)
(* interleave with unless the lock forbids it.  The Protocol Client        *)
(* (NutAuthClient) is the environment: each of its calls succeeds or fails *)
(* with any error kind, and list_instcmds may return any list.             *)
(***************************************************************************)
EXTENDS Integers, Sequences, FiniteSets, TLC

(***************************************************************************)
(* Bounds of the model.                                                    *)
(***************************************************************************)
MaxTime == 2       \* the monotonic clock (Instant) runs over 0..MaxTime
MaxTtl == 1        \* config.commands_ttl is drawn from 0..MaxTtl
MaxStrLen == 3     \* text values have at most MaxStrLen characters
MaxNum == 3        \* numeric values are drawn from 0..MaxNum

Tasks == {"t1", "t2"}

\* Device names: ups1 and ups2 are in the registry, ups3 is not.
UpsNames == {"ups1", "ups2", "ups3"}
Registered == {"ups1", "ups2"}

CmdNames == {"c1", "c2"}
Descs == {"d1", "d2"}

\* Option<T>: None is <<>>, Some(x) is <<x>>.
None == <<>>
Some(x) == <<x>>
IsSome(o) == o # <<>>
Unwrap(o) == o[1]

(***************************************************************************)
(* Value (nut_webgui_upsmc): a number or a text.  Text is a sequence of    *)
(* characters, " " being whitespace.                                       *)
(***************************************************************************)
Chars == {" ", "a"}
Strings == UNION {[1..k -> Chars] : k \in 0..MaxStrLen}

Num(k) == [kind |-> "num", num |-> k, text |-> <<>>]
Text(str) == [kind |-> "text", num |-> 0, text |-> str]
Values == {Num(k) : k \in 0..MaxNum} \cup {Text(str) : str \in Strings}

is_numeric(v) == v.kind = "num"
is_text(v) == v.kind = "text"
as_str(v) == v.text

\* str::trim: leading and trailing whitespace removed
RECURSIVE TrimStart(_)
TrimStart(str) ==
  IF Len(str) > 0 /\ str[1] = " " THEN TrimStart(Tail(str)) ELSE str

RECURSIVE TrimEnd(_)
TrimEnd(str) ==
  IF Len(str) > 0 /\ str[Len(str)] = " "
    THEN TrimEnd(SubSeq(str, 1, Len(str) - 1))
    ELSE str

Trim(str) == TrimEnd(TrimStart(str))

(***************************************************************************)
(* VarDetail: Number, String{max_len}, Enum{options}, Range{min, max}      *)
(***************************************************************************)
VarDetail(kind, max_len, options, min, max) ==
  [kind |-> kind, max_len |-> max_len, options |-> options, min |-> min,
   max |-> max]
VdNumber == VarDetail("Number", 0, {}, Num(0), Num(0))
VdString(max_len) == VarDetail("String", max_len, {}, Num(0), Num(0))
VdEnum(options) == VarDetail("Enum", 0, options, Num(0), Num(0))
VdRange(min, max) == VarDetail("Range", 0, {}, min, max)

\* The variables a request may name; var.ro is not writable on any device,
\* var.bad is a range whose driver reported a minimum that is no number.
VarNames ==
  {"var.num", "var.str", "var.enum", "var.range", "var.bad", "var.ro"}

RwVariables(max_len) ==
  [v \in VarNames |->
     CASE v = "var.num" -> Some(VdNumber)
       [] v = "var.str" -> Some(VdString(max_len))
       [] v = "var.enum" -> Some(VdEnum({Text(<<"a">>), Num(1)}))
       [] v = "var.range" -> Some(VdRange(Num(1), Num(2)))
       [] v = "var.bad" -> Some(VdRange(Text(<<"a">>), Num(2)))
       [] OTHER -> None]

(***************************************************************************)
(* InstCmd {id, desc} and the lists the daemon answers LIST CMD with: the  *)
(* empty list, a one-command list, a list that adds a command and changes  *)
(* the description of the first, and a list that drops the first command.  *)
(***************************************************************************)
InstCmd(i, d) == [id |-> i, desc |-> d]
CmdLists ==
  { <<>>,
    <<InstCmd("c1", "d1")>>,
    <<InstCmd("c1", "d2"), InstCmd("c2", "d1")>>,
    <<InstCmd("c2", "d2")>> }

\* ErrorKind of nut_webgui_upsmc; "Other" stands for every kind the handlers
\* do not name.
ErrorKinds == {"AccessDenied", "UnknownUps", "IOError", "RequestTimeout", "Other"}

UNAUTHORIZED == 401
NOT_FOUND == 404
BAD_GATEWAY == 502
BAD_REQUEST == 400
INTERNAL_SERVER_ERROR == 500
ACCEPTED == 202

\* ProblemDetail {title, status, detail}; a detail is its text and the
\* numbers formatted into it.
NoDetail == [text |-> "", args |-> <<>>]
ProblemDetail(title, status) ==
  [title |-> title, status |-> status, detail |-> NoDetail]
with_detail(p, text, args) ==
  [p EXCEPT !.detail = [text |-> text, args |-> args]]

\* Result<T, ProblemDetail>
Ok(v) == [tag |-> "Ok", value |-> v, problem |-> ProblemDetail("", 0)]
Err(p) == [tag |-> "Err", value |-> <<>>, problem |-> p]
NoResult == [tag |-> "None", value |-> <<>>, problem |-> ProblemDetail("", 0)]

VARIABLES
  config,      \* rs.config: upsd.user, upsd.pass, commands_ttl, allow_instcmds_list
  state,       \* rs.state: devices, commands_cache, shared_desc
  lock,        \* the RwLock around rs.state: its writer and its readers
  clock,       \* Instant::now()
  pc,          \* each task's position in its handler
  op,          \* the handler a task runs
  ups_name,    \* the handler's ups_name argument
  body,        \* the request body (instcmd / variable, value)
  now,         \* the local `now`
  client,      \* the task's daemon session: none, open, closed, dropped
  cmds,        \* the local `cmds`
  response,    \* the local `response` of a write handler
  result,      \* what the handler returned
  calls,       \* history: the Protocol Client calls of the task's request
  latest,      \* history: per device, the latest list_instcmds answer
  snap,        \* history: the store without the task's own writes
  lastOk,      \* history: per device, the last Ok(cmds) of update_commands
  lastApplied, \* history: the refresh whose write section began last
  command_cache, \* COMMAND_CACHE: per device, (expiry, commands)
  mutex,       \* the Mutex around COMMAND_CACHE: its holder
  csnap        \* history: COMMAND_CACHE without the task's own inserts

vars ==
  << config, state, lock, clock, pc, op, ups_name, body, now, client, cmds,
     response, result, calls, latest, snap, lastOk, lastApplied,
     command_cache, mutex, csnap >>

locals == << op, ups_name, body, now, client, cmds, response, result, calls >>
store == << config, state, lock, clock >>
hist == << latest, snap, lastOk, lastApplied >>
cache == << command_cache, mutex, csnap >>

\* a request's inputs beside ups_name: the body of a write, the query of a
\* read (GetUpsQuery.include)
NoBody == [instcmd |-> "", variable |-> "", value |-> <<>>, include |-> None]

(***************************************************************************)
(* The store at start-up.  The poller (not part of these files) has filled *)
(* the registry; no command list has been cached yet.                      *)
(***************************************************************************)
DeviceEntry(commands, rw) == [commands |-> commands, rw_variables |-> rw]

InitDevices(max_len) ==
  [n \in UpsNames |->
     IF n \in Registered
       THEN Some(DeviceEntry({"c1"}, RwVariables(max_len)))
       ELSE None]

InitState ==
  [devices |-> InitDevices(2),
   commands_cache |-> [n \in UpsNames |-> None],
   shared_desc |-> [k \in CmdNames |-> None]]

Configs ==
  [user : BOOLEAN, pass : BOOLEAN, commands_ttl : 0..MaxTtl,
   allow_instcmds_list : BOOLEAN]

InitTasks ==
  /\ lock = [writer |-> None, readers |-> {}]
  /\ clock = 0
  /\ pc = [t \in Tasks |-> "idle"]
  /\ op = [t \in Tasks |-> ""]
  /\ ups_name = [t \in Tasks |-> ""]
  /\ body = [t \in Tasks |-> NoBody]
  /\ now = [t \in Tasks |-> 0]
  /\ client = [t \in Tasks |-> "none"]
  /\ cmds = [t \in Tasks |-> <<>>]
  /\ response = [t \in Tasks |-> ""]
  /\ result = [t \in Tasks |-> NoResult]
  /\ calls = [t \in Tasks |-> <<>>]
  /\ latest = [n \in UpsNames |-> None]
  /\ lastOk = [n \in UpsNames |-> None]
  /\ lastApplied = None
  /\ command_cache = [n \in UpsNames |-> None]
  /\ mutex = None
  /\ csnap = [t \in Tasks |-> command_cache]

Init ==
  /\ config \in Configs
  /\ config.allow_instcmds_list
  /\ state = InitState
  /\ snap = [t \in Tasks |-> InitState]
  /\ InitTasks

(***************************************************************************)
(* The RwLock around rs.state (tokio::sync::RwLock): read() is granted     *)
(* while no writer holds the lock, write() while nobody holds it.          *)
(***************************************************************************)
\* a read() that does not wait for the writer
CanRead_ignoring_writer(l) == TRUE

CanRead(l) == l.writer = None

CanWrite(l) == l.writer = None /\ l.readers = {}

AcquireRead(l, t) == [l EXCEPT !.readers = @ \cup {t}]

\* a read guard that outlives its block
ReleaseRead_kept(l, t) == l

ReleaseRead(l, t) == [l EXCEPT !.readers = @ \ {t}]
AcquireWrite(l, t) == [l EXCEPT !.writer = Some(t)]
ReleaseWrite(l, t) == [l EXCEPT !.writer = None]

\* history: the store as it would be without task t's own writes
SnapAfter(t, s) == [u \in Tasks |-> IF u = t THEN snap[u] ELSE s]

\* history: one Protocol Client call and its outcome, "Ok" or an ErrorKind
Call(f, outcome) == [fn |-> f, ok |-> outcome = "Ok", kind |-> outcome]

\* list_instcmds answers with a list or fails with an error kind
ListAnswers ==
  {[ok |-> TRUE, list |-> l, kind |-> "Ok"] : l \in CmdLists}
    \cup {[ok |-> FALSE, list |-> <<>>, kind |-> k] : k \in ErrorKinds}

\* close() succeeds or fails; its callers discard the outcome
CloseOutcomes == {"Ok", "IOError"}

(***************************************************************************)
(* get_cached_commands (commands.rs:11-21)                                 *)
(***************************************************************************)
\* Instant::duration_since saturates at zero when the other instant is later.
DurationSince(later, earlier) == IF later >= earlier THEN later - earlier ELSE 0

\* an entry exactly ttl old still counted as fresh
IsStale_strict(n, fetched_at, ttl) == DurationSince(n, fetched_at) > ttl

IsStale(n, fetched_at, ttl) == DurationSince(n, fetched_at) >= ttl

\* a device without an entry answered as fresh
CachedCommands_absent_fresh(s, cfg, n, name) ==
  IF IsSome(s.commands_cache[name])
    THEN LET entry == Unwrap(s.commands_cache[name])
         IN << entry.commands, IsStale(n, entry.fetched_at, cfg.commands_ttl) >>
    ELSE << <<>>, FALSE >>

CachedCommands(s, cfg, n, name) ==
  IF IsSome(s.commands_cache[name])
    THEN LET entry == Unwrap(s.commands_cache[name])
         IN << entry.commands, IsStale(n, entry.fetched_at, cfg.commands_ttl) >>
    ELSE << <<>>, TRUE >>

\* lines 12-13: ttl and now are taken before the read section is asked for
get_cached_commands_call(t, name) ==
  /\ pc[t] = "idle"
  /\ pc' = [pc EXCEPT ![t] = "gc_lock"]
  /\ op' = [op EXCEPT ![t] = "get_cached_commands"]
  /\ ups_name' = [ups_name EXCEPT ![t] = name]
  /\ now' = [now EXCEPT ![t] = clock]
  /\ snap' = [snap EXCEPT ![t] = state]
  /\ UNCHANGED << cache, config, state, lock, clock, body, client, cmds, response, result,
                  calls, latest, lastOk, lastApplied >>

\* line 14: rs.state.read().await
gc_read_lock(t) ==
  /\ pc[t] = "gc_lock"
  /\ CanRead(lock)
  /\ lock' = AcquireRead(lock, t)
  /\ pc' = [pc EXCEPT ![t] = "gc_read"]
  /\ UNCHANGED << cache, config, state, clock, locals, latest, snap,
                  lastOk, lastApplied >>

\* lines 15-21: the lookup; the read guard is dropped on return
gc_read(t) ==
  /\ pc[t] = "gc_read"
  /\ result' = [result EXCEPT ![t] =
       [tag |-> "Val",
        value |-> CachedCommands(state, config, now[t], ups_name[t]),
        problem |-> ProblemDetail("", 0)]]
  /\ lock' = ReleaseRead(lock, t)
  /\ pc' = [pc EXCEPT ![t] = "done"]
  /\ UNCHANGED << cache, config, state, clock, op, ups_name, body, now, client,
                  cmds, response, calls, latest, snap, lastOk, lastApplied >>

(***************************************************************************)
(* update_commands (commands.rs:23-111)                                    *)
(***************************************************************************)
\* lines 27-43: both the user and the password are configured
UC_HasAuth(cfg) == cfg.user /\ cfg.pass

InsufficientConfig ==
  with_detail(ProblemDetail("Insufficient upsd configuration", UNAUTHORIZED),
    "Operation requires valid username and password to be configured.", <<>>)

\* From<nut_webgui_upsmc::errors::Error> for ProblemDetail (err.into(), `?`)
ErrorInto(kind) ==
  CASE kind = "AccessDenied" -> ProblemDetail("Access denied", UNAUTHORIZED)
    [] kind = "UnknownUps" -> ProblemDetail("Device not found", NOT_FOUND)
    [] kind \in {"IOError", "RequestTimeout"} ->
         ProblemDetail("UPS daemon unreachable", BAD_GATEWAY)
    [] OTHER -> ProblemDetail(kind, 0)

\* the unknown-device arm answering with the unreachable problem
UC_ConnectErr_unknown_as_unreachable(kind) ==
  CASE kind = "AccessDenied" -> ProblemDetail("Access denied", UNAUTHORIZED)
    [] kind \in {"UnknownUps", "IOError", "RequestTimeout"} ->
         ProblemDetail("UPS daemon unreachable", BAD_GATEWAY)
    [] OTHER -> ErrorInto(kind)

\* lines 47-65: the mapping of a connect failure
UC_ConnectErr(kind) ==
  CASE kind = "AccessDenied" -> ProblemDetail("Access denied", UNAUTHORIZED)
    [] kind = "UnknownUps" -> ProblemDetail("Device not found", NOT_FOUND)
    [] kind \in {"IOError", "RequestTimeout"} ->
         ProblemDetail("UPS daemon unreachable", BAD_GATEWAY)
    [] OTHER -> ErrorInto(kind)

\* the access-denied arm answering with the unknown-device problem
UC_ListErr_wrong_arm(kind) ==
  CASE kind \in {"AccessDenied", "UnknownUps"} ->
         ProblemDetail("Device not found", NOT_FOUND)
    [] kind \in {"IOError", "RequestTimeout"} ->
         ProblemDetail("UPS daemon unreachable", BAD_GATEWAY)
    [] OTHER -> ErrorInto(kind)

\* lines 71-89: the mapping of a list_instcmds failure
UC_ListErr(kind) ==
  CASE kind = "AccessDenied" -> ProblemDetail("Access denied", UNAUTHORIZED)
    [] kind = "UnknownUps" -> ProblemDetail("Device not found", NOT_FOUND)
    [] kind \in {"IOError", "RequestTimeout"} ->
         ProblemDetail("UPS daemon unreachable", BAD_GATEWAY)
    [] OTHER -> ErrorInto(kind)

\* a list_instcmds failure taken for an empty list, as json.rs:69-72 does
UC_OnList_swallowing(ok, list, kind) ==
  [ret |-> FALSE, cmds |-> IF ok THEN list ELSE <<>>, result |-> NoResult]

\* lines 68-91: Ok(c) => c goes on with c, Err(err) => return ends the call
UC_OnList(ok, list, kind) ==
  IF ok
    THEN [ret |-> FALSE, cmds |-> list, result |-> NoResult]
    ELSE [ret |-> TRUE, cmds |-> <<>>, result |-> Err(UC_ListErr(kind))]

\* the refreshed ids merged into the set instead of replacing it
RefreshedIds_merging(old, list) == old \cup {list[i].id : i \in 1..Len(list)}

\* line 102: cmds.iter().map(|c| c.id.clone()).collect()
RefreshedIds(old, list) == {list[i].id : i \in 1..Len(list)}

\* an insert that keeps the description a key already has
RECURSIVE InsertDescs_keep_first(_, _, _)
InsertDescs_keep_first(pool, list, i) ==
  IF i > Len(list)
    THEN pool
    ELSE InsertDescs_keep_first(
           IF IsSome(pool[list[i].id])
             THEN pool
             ELSE [pool EXCEPT ![list[i].id] = Some(list[i].desc)],
           list, i + 1)

\* lines 104-109: shared_desc.insert for every command, in order
RECURSIVE InsertDescs(_, _, _)
InsertDescs(pool, list, i) ==
  IF i > Len(list)
    THEN pool
    ELSE InsertDescs([pool EXCEPT ![list[i].id] = Some(list[i].desc)], list, i + 1)

\* a refresh that does not start while another task refreshes the device
update_commands_call_dedup(t, name) ==
  /\ pc[t] = "idle"
  /\ op' = [op EXCEPT ![t] = "update_commands"]
  /\ ups_name' = [ups_name EXCEPT ![t] = name]
  /\ snap' = [snap EXCEPT ![t] = state]
  /\ IF UC_HasAuth(config)
       THEN IF \E u \in Tasks \ {t} : /\ op[u] = "update_commands"
                                       /\ ups_name[u] = name
                                       /\ pc[u] \notin {"idle", "done"}
              THEN /\ pc' = [pc EXCEPT ![t] = "done"]
                   /\ result' = [result EXCEPT ![t] = Ok(<<>>)]
              ELSE /\ pc' = [pc EXCEPT ![t] = "uc_connect"]
                   /\ result' = result
       ELSE /\ pc' = [pc EXCEPT ![t] = "done"]
            /\ result' = [result EXCEPT ![t] = Err(InsufficientConfig)]
  /\ UNCHANGED << cache, config, state, lock, clock, body, now, client, cmds,
                  response, calls, latest, lastOk, lastApplied >>

\* lines 23-43
update_commands_call(t, name) ==
  /\ pc[t] = "idle"
  /\ op' = [op EXCEPT ![t] = "update_commands"]
  /\ ups_name' = [ups_name EXCEPT ![t] = name]
  /\ snap' = [snap EXCEPT ![t] = state]
  /\ IF UC_HasAuth(config)
       THEN /\ pc' = [pc EXCEPT ![t] = "uc_connect"]
            /\ result' = result
       ELSE /\ pc' = [pc EXCEPT ![t] = "done"]
            /\ result' = [result EXCEPT ![t] = Err(InsufficientConfig)]
  /\ UNCHANGED << cache, config, state, lock, clock, body, now, client, cmds, response,
                  calls, latest, lastOk, lastApplied >>

\* line 44: NutAuthClient::connect(addr, user, password).await
uc_connect(t) ==
  /\ pc[t] = "uc_connect"
  /\ \/ /\ client' = [client EXCEPT ![t] = "open"]
        /\ calls' = [calls EXCEPT ![t] = Append(@, Call("connect", "Ok"))]
        /\ pc' = [pc EXCEPT ![t] = "uc_list"]
        /\ result' = result
     \/ \E kind \in ErrorKinds :
          /\ client' = client
          /\ calls' = [calls EXCEPT ![t] = Append(@, Call("connect", kind))]
          /\ pc' = [pc EXCEPT ![t] = "done"]
          /\ result' = [result EXCEPT ![t] = Err(UC_ConnectErr(kind))]
  /\ UNCHANGED << cache, config, state, lock, clock, op, ups_name, body, now, cmds, response,
                  latest, snap, lastOk, lastApplied >>

\* lines 68-91: client.list_instcmds(ups_name).await; on Err the function
\* returns and the client is dropped without close()
uc_list(t) ==
  /\ pc[t] = "uc_list"
  /\ \E a \in ListAnswers :
       LET o == UC_OnList(a.ok, a.list, a.kind) IN
       /\ calls' = [calls EXCEPT ![t] = Append(@, Call("list_instcmds", a.kind))]
       /\ latest' = IF a.ok THEN [latest EXCEPT ![ups_name[t]] = Some(a.list)]
                            ELSE latest
       /\ IF o.ret
            THEN /\ result' = [result EXCEPT ![t] = o.result]
                 /\ client' = [client EXCEPT ![t] = "dropped"]
                 /\ pc' = [pc EXCEPT ![t] = "done"]
                 /\ cmds' = cmds
            ELSE /\ cmds' = [cmds EXCEPT ![t] = o.cmds]
                 /\ pc' = [pc EXCEPT ![t] = "uc_close"]
                 /\ UNCHANGED << result, client >>
  /\ UNCHANGED << cache, config, state, lock, clock, op, ups_name, body, now,
                  response, snap, lastOk, lastApplied >>

\* line 92: _ = client.close().await; the outcome is discarded
uc_close(t) ==
  /\ pc[t] = "uc_close"
  /\ \E outcome \in CloseOutcomes :
       calls' = [calls EXCEPT ![t] = Append(@, Call("close", outcome))]
  /\ client' = [client EXCEPT ![t] = "closed"]
  /\ pc' = [pc EXCEPT ![t] = "uc_write"]
  /\ UNCHANGED << cache, config, state, lock, clock, op, ups_name, body, now, cmds, response,
                  result, latest, snap, lastOk, lastApplied >>

\* lines 93-100: rs.state.write().await, then commands_cache.insert
uc_insert_cache(t) ==
  /\ pc[t] = "uc_write"
  /\ CanWrite(lock)
  /\ lock' = AcquireWrite(lock, t)
  /\ state' = [state EXCEPT !.commands_cache[ups_name[t]] =
                 Some([fetched_at |-> clock, commands |-> cmds[t]])]
  /\ snap' = SnapAfter(t, state')
  /\ lastApplied' = Some([ups |-> ups_name[t], cmds |-> cmds[t]])
  /\ pc' = [pc EXCEPT ![t] = "uc_w_dev"]
  /\ UNCHANGED << cache, config, clock, locals, latest, lastOk >>

\* a device entry made for a name the registry does not have
uc_set_device_creating(t) ==
  /\ pc[t] = "uc_w_dev"
  /\ state' =
       IF IsSome(state.devices[ups_name[t]])
         THEN [state EXCEPT !.devices[ups_name[t]] =
                 Some([Unwrap(@) EXCEPT !.commands = RefreshedIds(@, cmds[t])])]
         ELSE [state EXCEPT !.devices[ups_name[t]] =
                 Some(DeviceEntry({cmds[t][i].id : i \in 1..Len(cmds[t])},
                                  [v \in VarNames |-> None]))]
  /\ snap' = SnapAfter(t, state')
  /\ pc' = [pc EXCEPT ![t] = "uc_w_desc"]
  /\ UNCHANGED << cache, config, lock, clock, locals, latest, lastOk,
                  lastApplied >>

\* lines 101-103: the registered device's command-id set
uc_set_device(t) ==
  /\ pc[t] = "uc_w_dev"
  /\ state' =
       IF IsSome(state.devices[ups_name[t]])
         THEN [state EXCEPT !.devices[ups_name[t]] =
                 Some([Unwrap(@) EXCEPT !.commands = RefreshedIds(@, cmds[t])])]
         ELSE state
  /\ snap' = SnapAfter(t, state')
  /\ pc' = [pc EXCEPT ![t] = "uc_w_desc"]
  /\ UNCHANGED << cache, config, lock, clock, locals, latest, lastOk,
                  lastApplied >>

\* lines 104-110: the description upserts, then Ok(cmds); the write guard
\* is dropped on return
uc_insert_desc(t) ==
  /\ pc[t] = "uc_w_desc"
  /\ state' = [state EXCEPT !.shared_desc = InsertDescs(@, cmds[t], 1)]
  /\ snap' = SnapAfter(t, state')
  /\ lock' = ReleaseWrite(lock, t)
  /\ result' = [result EXCEPT ![t] = Ok(cmds[t])]
  /\ lastOk' = [lastOk EXCEPT ![ups_name[t]] = Some(cmds[t])]
  /\ pc' = [pc EXCEPT ![t] = "done"]
  /\ UNCHANGED << cache, config, clock, op, ups_name, body, now, client, cmds, response,
                  calls, latest, lastApplied >>

(***************************************************************************)
(* json.rs: require_auth_config! (lines 24-38)                             *)
(***************************************************************************)
\* the password alone taken for a complete configuration
require_auth_config_pass_only(cfg) ==
  IF cfg.pass THEN Ok(<<>>) ELSE Err(InsufficientConfig)

require_auth_config(cfg) ==
  IF cfg.user /\ cfg.pass THEN Ok(<<>>) ELSE Err(InsufficientConfig)

\* The `?` operator: Ok goes on, Err returns.
Try(r) == r.tag = "Ok"

\* history: a request begins
Begin(t, handler, name, b) ==
  /\ pc[t] = "idle"
  /\ op' = [op EXCEPT ![t] = handler]
  /\ ups_name' = [ups_name EXCEPT ![t] = name]
  /\ body' = [body EXCEPT ![t] = b]
  /\ snap' = [snap EXCEPT ![t] = state]

\* a handler returns r
Return(t, r) ==
  /\ result' = [result EXCEPT ![t] = r]
  /\ pc' = [pc EXCEPT ![t] = "done"]

Goto(t, label) ==
  /\ pc' = [pc EXCEPT ![t] = label]
  /\ result' = result

Invoke(t, f, outcome) ==
  calls' = [calls EXCEPT ![t] = Append(@, Call(f, outcome))]

(***************************************************************************)
(* post_command (json.rs:177-225)                                          *)
(***************************************************************************)
\* any command let through for a registered device
CheckCommand_any_known(s, name, instcmd) ==
  IF IsSome(s.devices[name])
    THEN Ok(<<>>)
    ELSE Err(ProblemDetail("Device not found", NOT_FOUND))

\* lines 186-207: the device and its command-id set
CheckCommand(s, name, instcmd) ==
  IF IsSome(s.devices[name])
    THEN IF instcmd \in Unwrap(s.devices[name]).commands
           THEN Ok(<<>>)
           ELSE Err(ProblemDetail("Invalid INSTCMD", BAD_REQUEST))
    ELSE Err(ProblemDetail("Device not found", NOT_FOUND))

\* line 184
post_command_call(t, name, instcmd) ==
  /\ Begin(t, "post_command", name, [NoBody EXCEPT !.instcmd = instcmd])
  /\ LET auth == require_auth_config(config) IN
       IF Try(auth) THEN Goto(t, "pc_lock") ELSE Return(t, auth)
  /\ UNCHANGED << cache, store, now, client, cmds, response, calls, latest, lastOk,
                  lastApplied >>

\* line 187: rs.state.read().await
pc_read_lock(t) ==
  /\ pc[t] = "pc_lock"
  /\ CanRead(lock)
  /\ lock' = AcquireRead(lock, t)
  /\ Goto(t, "pc_check")
  /\ UNCHANGED << cache, config, state, clock, op, ups_name, body, now, client,
                  cmds, response, calls, hist >>

\* lines 189-207: the check; the read guard is dropped at the block's end
pc_check(t) ==
  /\ pc[t] = "pc_check"
  /\ lock' = ReleaseRead(lock, t)
  /\ LET v == CheckCommand(state, ups_name[t], body[t].instcmd) IN
       IF Try(v) THEN Goto(t, "pc_connect") ELSE Return(t, v)
  /\ UNCHANGED << cache, config, state, clock, op, ups_name, body, now, client,
                  cmds, response, calls, hist >>

\* line 209: NutAuthClient::connect(addr, user, password).await?
pc_connect(t) ==
  /\ pc[t] = "pc_connect"
  /\ \/ /\ Invoke(t, "connect", "Ok")
        /\ client' = [client EXCEPT ![t] = "open"]
        /\ Goto(t, "pc_instcmd")
     \/ \E kind \in ErrorKinds :
          /\ Invoke(t, "connect", kind)
          /\ client' = client
          /\ Return(t, Err(ErrorInto(kind)))
  /\ UNCHANGED << cache, store, op, ups_name, body, now, cmds, response, hist >>

\* line 212: client.instcmd(&ups_name, &body.instcmd).await
pc_instcmd(t) ==
  /\ pc[t] = "pc_instcmd"
  /\ \/ /\ Invoke(t, "instcmd", "Ok")
        /\ response' = [response EXCEPT ![t] = "Ok"]
     \/ \E kind \in ErrorKinds :
          /\ Invoke(t, "instcmd", kind)
          /\ response' = [response EXCEPT ![t] = kind]
  /\ Goto(t, "pc_close")
  /\ UNCHANGED << cache, store, op, ups_name, body, now, client, cmds, hist >>

\* lines 213-224: _ = client.close().await; response?; Ok(ACCEPTED)
pc_close(t) ==
  /\ pc[t] = "pc_close"
  /\ \E outcome \in CloseOutcomes : Invoke(t, "close", outcome)
  /\ client' = [client EXCEPT ![t] = "closed"]
  /\ Return(t, IF response[t] = "Ok" THEN Ok(ACCEPTED)
                                     ELSE Err(ErrorInto(response[t])))
  /\ UNCHANGED << cache, store, op, ups_name, body, now, cmds, response, hist >>

(***************************************************************************)
(* post_fsd (json.rs:305-339)                                              *)
(***************************************************************************)
\* lines 312-322
CheckDevice(s, name) ==
  IF IsSome(s.devices[name])
    THEN Ok(<<>>)
    ELSE Err(ProblemDetail("Device not found", NOT_FOUND))

\* line 310
post_fsd_call(t, name) ==
  /\ Begin(t, "post_fsd", name, NoBody)
  /\ LET auth == require_auth_config(config) IN
       IF Try(auth) THEN Goto(t, "fsd_lock") ELSE Return(t, auth)
  /\ UNCHANGED << cache, store, now, client, cmds, response, calls, latest, lastOk,
                  lastApplied >>

\* line 313: rs.state.read().await
fsd_read_lock(t) ==
  /\ pc[t] = "fsd_lock"
  /\ CanRead(lock)
  /\ lock' = AcquireRead(lock, t)
  /\ Goto(t, "fsd_check")
  /\ UNCHANGED << cache, config, state, clock, op, ups_name, body, now, client,
                  cmds, response, calls, hist >>

\* lines 314-322
fsd_check(t) ==
  /\ pc[t] = "fsd_check"
  /\ lock' = ReleaseRead(lock, t)
  /\ LET v == CheckDevice(state, ups_name[t]) IN
       IF Try(v) THEN Goto(t, "fsd_connect") ELSE Return(t, v)
  /\ UNCHANGED << cache, config, state, clock, op, ups_name, body, now, client,
                  cmds, response, calls, hist >>

\* line 324: NutAuthClient::connect(addr, user, password).await?
fsd_connect(t) ==
  /\ pc[t] = "fsd_connect"
  /\ \/ /\ Invoke(t, "connect", "Ok")
        /\ client' = [client EXCEPT ![t] = "open"]
        /\ Goto(t, "fsd_fsd")
     \/ \E kind \in ErrorKinds :
          /\ Invoke(t, "connect", kind)
          /\ client' = client
          /\ Return(t, Err(ErrorInto(kind)))
  /\ UNCHANGED << cache, store, op, ups_name, body, now, cmds, response, hist >>

\* line 327: client.fsd(&ups_name).await
fsd_fsd(t) ==
  /\ pc[t] = "fsd_fsd"
  /\ \/ /\ Invoke(t, "fsd", "Ok")
        /\ response' = [response EXCEPT ![t] = "Ok"]
     \/ \E kind \in ErrorKinds :
          /\ Invoke(t, "fsd", kind)
          /\ response' = [response EXCEPT ![t] = kind]
  /\ Goto(t, "fsd_close")
  /\ UNCHANGED << cache, store, op, ups_name, body, now, client, cmds, hist >>

\* lines 328-338: _ = client.close().await; response?; Ok(ACCEPTED)
fsd_close(t) ==
  /\ pc[t] = "fsd_close"
  /\ \E outcome \in CloseOutcomes : Invoke(t, "close", outcome)
  /\ client' = [client EXCEPT ![t] = "closed"]
  /\ Return(t, IF response[t] = "Ok" THEN Ok(ACCEPTED)
                                     ELSE Err(ErrorInto(response[t])))
  /\ UNCHANGED << cache, store, op, ups_name, body, now, cmds, response, hist >>

(***************************************************************************)
(* patch_var (json.rs:341-484)                                             *)
(***************************************************************************)
\* Value::as_lossly_f64: the number of a numeric value
as_lossly_f64(v) == IF is_numeric(v) THEN Some(v.num) ELSE None

unwrap_or(o, d) == IF IsSome(o) THEN Unwrap(o) ELSE d

InvalidValueType == ProblemDetail("Invalid value type", BAD_REQUEST)

\* lines 369-397
ValidateString(max_len, value) ==
  IF is_text(value)
    THEN LET value_str == as_str(value)
             trimmed == Trim(value_str)
         IN IF Len(trimmed) = 0
              THEN Err(with_detail(ProblemDetail("Empty value", BAD_REQUEST),
                     "Value cannot be empty or consist of only whitespaces.",
                     <<>>))
              ELSE IF Len(trimmed) > max_len
                THEN Err(with_detail(ProblemDetail("Out of range", BAD_REQUEST),
                       "Maximum allowed string length is {}.", <<max_len>>))
                ELSE Ok(<<>>)
    ELSE Err(with_detail(InvalidValueType,
           "expects a string type, but the provided value is not a string.",
           <<>>))

\* lines 355-368
ValidateNumber(value) ==
  IF is_numeric(value)
    THEN Ok(<<>>)
    ELSE Err(with_detail(InvalidValueType,
           "expects a numeric type, but the provided value is not a number.",
           <<>>))

\* a value taken for an option when an option of its type exists
ValidateEnum_by_type(options, value) ==
  IF \E o \in options : o.kind = value.kind
    THEN Ok(<<>>)
    ELSE Err(with_detail(ProblemDetail("Invalid option", BAD_REQUEST),
           "is an enum type, allowed options: {opts:?}", <<options>>))

\* lines 398-413
ValidateEnum(options, value) ==
  IF value \in options
    THEN Ok(<<>>)
    ELSE Err(with_detail(ProblemDetail("Invalid option", BAD_REQUEST),
           "is an enum type, allowed options: {opts:?}", <<options>>))

\* a range that excludes its bounds
ValidateRange_exclusive(min, max, value) ==
  IF is_numeric(value)
    THEN IF IsSome(as_lossly_f64(min)) /\ IsSome(as_lossly_f64(max))
           THEN LET lo == Unwrap(as_lossly_f64(min))
                    hi == Unwrap(as_lossly_f64(max))
                    valuef64 == unwrap_or(as_lossly_f64(value), 0)
                IN IF lo < valuef64 /\ valuef64 < hi
                     THEN Ok(<<>>)
                     ELSE Err(with_detail(
                            ProblemDetail("Out of range", BAD_REQUEST),
                            "is not within the acceptable range [{min}, {max}]",
                            <<lo, hi>>))
           ELSE Err(with_detail(
                  ProblemDetail("Malformed driver response", INTERNAL_SERVER_ERROR),
                  "the reported min-max values by ups device are not number.",
                  <<>>))
    ELSE Err(with_detail(InvalidValueType,
           "expects a numeric value between {min} and {max}", <<>>))

\* lines 414-452
ValidateRange(min, max, value) ==
  IF is_numeric(value)
    THEN IF IsSome(as_lossly_f64(min)) /\ IsSome(as_lossly_f64(max))
           THEN LET lo == Unwrap(as_lossly_f64(min))
                    hi == Unwrap(as_lossly_f64(max))
                    valuef64 == unwrap_or(as_lossly_f64(value), 0)
                IN IF lo <= valuef64 /\ valuef64 <= hi
                     THEN Ok(<<>>)
                     ELSE Err(with_detail(
                            ProblemDetail("Out of range", BAD_REQUEST),
                            "is not within the acceptable range [{min}, {max}]",
                            <<lo, hi>>))
           ELSE Err(with_detail(
                  ProblemDetail("Malformed driver response", INTERNAL_SERVER_ERROR),
                  "the reported min-max values by ups device are not number.",
                  <<>>))
    ELSE Err(with_detail(InvalidValueType,
           "expects a numeric value between {min} and {max}", <<>>))

\* an unknown device answered like an unknown variable
ValidateVar_no_device_arm(s, name, variable, value) ==
  IF IsSome(s.devices[name])
       /\ IsSome(Unwrap(s.devices[name]).rw_variables[variable])
    THEN LET d == Unwrap(Unwrap(s.devices[name]).rw_variables[variable]) IN
         CASE d.kind = "Number" -> ValidateNumber(value)
           [] d.kind = "String" -> ValidateString(d.max_len, value)
           [] d.kind = "Enum" -> ValidateEnum(d.options, value)
           [] d.kind = "Range" -> ValidateRange(d.min, d.max, value)
    ELSE Err(with_detail(ProblemDetail("Invalid RW variable", BAD_REQUEST),
           "is not a valid writeable variable.", <<>>))

\* lines 353-464: the device, its VarDetail for the variable, the rule
ValidateVar(s, name, variable, value) ==
  IF IsSome(s.devices[name])
    THEN LET detail == Unwrap(s.devices[name]).rw_variables[variable] IN
         IF IsSome(detail)
           THEN LET d == Unwrap(detail) IN
                CASE d.kind = "Number" -> ValidateNumber(value)
                  [] d.kind = "String" -> ValidateString(d.max_len, value)
                  [] d.kind = "Enum" -> ValidateEnum(d.options, value)
                  [] d.kind = "Range" -> ValidateRange(d.min, d.max, value)
           ELSE Err(with_detail(ProblemDetail("Invalid RW variable", BAD_REQUEST),
                  "is not a valid writeable variable.", <<>>))
    ELSE Err(ProblemDetail("Device not found", NOT_FOUND))

\* the validation's outcome not propagated
PV_Try_ignoring(v) == TRUE

\* line 465: the validation block's `?`
PV_Try(v) == v.tag = "Ok"

\* line 348
patch_var_call(t, name, variable, value) ==
  /\ Begin(t, "patch_var", name,
           [NoBody EXCEPT !.variable = variable, !.value = value])
  /\ LET auth == require_auth_config(config) IN
       IF Try(auth) THEN Goto(t, "pv_lock") ELSE Return(t, auth)
  /\ UNCHANGED << cache, store, now, client, cmds, response, calls, latest, lastOk,
                  lastApplied >>

\* line 351: rs.state.read().await
pv_read_lock(t) ==
  /\ pc[t] = "pv_lock"
  /\ CanRead(lock)
  /\ lock' = AcquireRead(lock, t)
  /\ Goto(t, "pv_check")
  /\ UNCHANGED << cache, config, state, clock, op, ups_name, body, now, client,
                  cmds, response, calls, hist >>

\* lines 353-465: the validation; the read guard is dropped at the block's end
pv_check(t) ==
  /\ pc[t] = "pv_check"
  /\ lock' = ReleaseRead(lock, t)
  /\ LET v == ValidateVar(state, ups_name[t], body[t].variable, body[t].value) IN
       IF PV_Try(v) THEN Goto(t, "pv_connect") ELSE Return(t, v)
  /\ UNCHANGED << cache, config, state, clock, op, ups_name, body, now, client,
                  cmds, response, calls, hist >>

\* line 467: NutAuthClient::connect(addr, user, password).await?
pv_connect(t) ==
  /\ pc[t] = "pv_connect"
  /\ \/ /\ Invoke(t, "connect", "Ok")
        /\ client' = [client EXCEPT ![t] = "open"]
        /\ Goto(t, "pv_set_var")
     \/ \E kind \in ErrorKinds :
          /\ Invoke(t, "connect", kind)
          /\ client' = client
          /\ Return(t, Err(ErrorInto(kind)))
  /\ UNCHANGED << cache, store, op, ups_name, body, now, cmds, response, hist >>

\* line 470: client.set_var(&ups_name, &body.variable, &body.value).await
pv_set_var(t) ==
  /\ pc[t] = "pv_set_var"
  /\ \/ /\ Invoke(t, "set_var", "Ok")
        /\ response' = [response EXCEPT ![t] = "Ok"]
     \/ \E kind \in ErrorKinds :
          /\ Invoke(t, "set_var", kind)
          /\ response' = [response EXCEPT ![t] = kind]
  /\ Goto(t, "pv_close")
  /\ UNCHANGED << cache, store, op, ups_name, body, now, client, cmds, hist >>

\* lines 471-483: _ = client.close().await; response?; Ok(ACCEPTED)
pv_close(t) ==
  /\ pc[t] = "pv_close"
  /\ \E outcome \in CloseOutcomes : Invoke(t, "close", outcome)
  /\ client' = [client EXCEPT ![t] = "closed"]
  /\ Return(t, IF response[t] = "Ok" THEN Ok(ACCEPTED)
                                     ELSE Err(ErrorInto(response[t])))
  /\ UNCHANGED << cache, store, op, ups_name, body, now, cmds, response, hist >>

(***************************************************************************)
(* get_instcmds (json.rs:235-303)                                          *)
(***************************************************************************)
\* lines 250-268: the mapping of a connect failure
GI_ConnectErr(kind) ==
  CASE kind = "AccessDenied" -> ProblemDetail("Access denied", UNAUTHORIZED)
    [] kind = "UnknownUps" -> ProblemDetail("Device not found", NOT_FOUND)
    [] kind \in {"IOError", "RequestTimeout"} ->
         ProblemDetail("UPS daemon unreachable", BAD_GATEWAY)
    [] OTHER -> ErrorInto(kind)

\* lines 274-292: the mapping of a list_instcmds failure
GI_ListErr(kind) ==
  CASE kind = "AccessDenied" -> ProblemDetail("Access denied", UNAUTHORIZED)
    [] kind = "UnknownUps" -> ProblemDetail("Device not found", NOT_FOUND)
    [] kind \in {"IOError", "RequestTimeout"} ->
         ProblemDetail("UPS daemon unreachable", BAD_GATEWAY)
    [] OTHER -> ErrorInto(kind)

\* lines 239-246
get_instcmds_call(t, name) ==
  /\ Begin(t, "get_instcmds", name, NoBody)
  /\ IF ~config.allow_instcmds_list
       THEN Return(t, Err(ProblemDetail("Target resource not found", NOT_FOUND)))
       ELSE LET auth == require_auth_config(config) IN
            IF Try(auth) THEN Goto(t, "gi_connect") ELSE Return(t, auth)
  /\ UNCHANGED << cache, store, now, client, cmds, response, calls, latest, lastOk,
                  lastApplied >>

\* line 247: NutAuthClient::connect(addr, user, password).await
gi_connect(t) ==
  /\ pc[t] = "gi_connect"
  /\ \/ /\ Invoke(t, "connect", "Ok")
        /\ client' = [client EXCEPT ![t] = "open"]
        /\ Goto(t, "gi_list")
     \/ \E kind \in ErrorKinds :
          /\ Invoke(t, "connect", kind)
          /\ client' = client
          /\ Return(t, Err(GI_ConnectErr(kind)))
  /\ UNCHANGED << cache, store, op, ups_name, body, now, cmds, response, hist >>

\* lines 271-294: client.list_instcmds(&ups_name).await; on Err the handler
\* returns and the client is dropped without close()
gi_list(t) ==
  /\ pc[t] = "gi_list"
  /\ \/ \E list \in CmdLists :
          /\ Invoke(t, "list_instcmds", "Ok")
          /\ cmds' = [cmds EXCEPT ![t] = list]
          /\ client' = client
          /\ Goto(t, "gi_close")
     \/ \E kind \in ErrorKinds :
          /\ Invoke(t, "list_instcmds", kind)
          /\ cmds' = cmds
          /\ client' = [client EXCEPT ![t] = "dropped"]
          /\ Return(t, Err(GI_ListErr(kind)))
  /\ UNCHANGED << cache, store, op, ups_name, body, now, response, hist >>

\* lines 295-302: _ = client.close().await; Ok(Json(response))
gi_close(t) ==
  /\ pc[t] = "gi_close"
  /\ \E outcome \in CloseOutcomes : Invoke(t, "close", outcome)
  /\ client' = [client EXCEPT ![t] = "closed"]
  /\ Return(t, Ok([ups |-> ups_name[t], count |-> Len(cmds[t]),
                   commands |-> cmds[t]]))
  /\ UNCHANGED << cache, store, op, ups_name, body, now, cmds, response, hist >>

(***************************************************************************)
(* get_ups_by_name (json.rs:93-162) and get_commands_cached (json.rs:42-80)*)
(* with COMMAND_CACHE (json.rs:40).  An instant is a number of seconds.    *)
(***************************************************************************)
EMPTY_TTL_SECS == 1
FULL_TTL_SECS == 2

\* line 99
Force(include) == include = Some("commands")

\* an entry that expires now still served
GCC_Fresh_at_expiry(entry, n) == IsSome(entry) /\ Unwrap(entry).exp >= n

\* lines 50-51: an entry is there and its expiry is after now
GCC_Fresh(entry, n) == IsSome(entry) /\ Unwrap(entry).exp > n

\* lines 56-59
GCC_HasAuth(cfg) == cfg.user /\ cfg.pass

\* lines 67-73: a failure is logged and an empty list goes on
GCC_OnList(ok, list, kind) == IF ok THEN list ELSE <<>>

\* lines 75-76
GCC_Expiry(n, list) ==
  n + (IF list = <<>> THEN EMPTY_TTL_SECS ELSE FULL_TTL_SECS)

\* history: COMMAND_CACHE as it would be without task t's own inserts
CSnapAfter(t, c) == [u \in Tasks |-> IF u = t THEN csnap[u] ELSE c]

\* lines 56-60 of get_commands_cached, reached with or without the lookup:
\* without credentials an empty list is the answer (lines 144-155 wrap it)
gcc_auth(t) ==
  IF GCC_HasAuth(config)
    THEN Goto(t, "gcc_connect")
    ELSE Return(t, Ok(<<>>))

\* lines 98-100
get_ups_by_name_call(t, name, include) ==
  /\ Begin(t, "get_ups_by_name", name, [NoBody EXCEPT !.include = include])
  /\ Goto(t, "gu_lock")
  /\ csnap' = [csnap EXCEPT ![t] = command_cache]
  /\ UNCHANGED << store, now, client, cmds, response, calls, latest, lastOk,
                  lastApplied, command_cache, mutex >>

\* line 100: rs.state.read().await
gu_read_lock(t) ==
  /\ pc[t] = "gu_lock"
  /\ CanRead(lock)
  /\ lock' = AcquireRead(lock, t)
  /\ Goto(t, "gu_check")
  /\ UNCHANGED << cache, config, state, clock, op, ups_name, body, now,
                  client, cmds, response, calls, hist >>

\* lines 101-143 and 47-49: the device is looked up; drop(server_state)
\* comes before get_commands_cached, which takes now and, unless forced,
\* asks for the cache's mutex
gu_check(t) ==
  /\ pc[t] = "gu_check"
  /\ lock' = ReleaseRead(lock, t)
  /\ IF IsSome(state.devices[ups_name[t]])
       THEN /\ now' = [now EXCEPT ![t] = clock]
            /\ IF Force(body[t].include)
                 THEN gcc_auth(t)
                 ELSE Goto(t, "gcc_lock")
       ELSE /\ now' = now
            /\ Return(t, Err(ProblemDetail("Device not found", NOT_FOUND)))
  /\ UNCHANGED << cache, config, state, clock, op, ups_name, body, client,
                  cmds, response, calls, hist >>

\* line 49: COMMAND_CACHE.lock().await
gcc_lock(t) ==
  /\ pc[t] = "gcc_lock"
  /\ mutex = None
  /\ mutex' = Some(t)
  /\ Goto(t, "gcc_lookup")
  /\ UNCHANGED << store, locals, hist, command_cache, csnap >>

\* lines 50-55: a fresh entry is returned; the guard is dropped either way
gcc_lookup(t) ==
  /\ pc[t] = "gcc_lookup"
  /\ mutex' = None
  /\ LET entry == command_cache[ups_name[t]] IN
       IF GCC_Fresh(entry, now[t])
         THEN Return(t, Ok(Unwrap(entry).cmds))
         ELSE gcc_auth(t)
  /\ UNCHANGED << store, op, ups_name, body, now, client, cmds, response,
                  calls, hist, command_cache, csnap >>

\* lines 60-66: a connect failure is logged and answered with an empty list
gcc_connect(t) ==
  /\ pc[t] = "gcc_connect"
  /\ \E outcome \in {"Ok"} \cup ErrorKinds :
       /\ Invoke(t, "connect", outcome)
       /\ IF outcome = "Ok"
            THEN /\ client' = [client EXCEPT ![t] = "open"]
                 /\ Goto(t, "gcc_list")
            ELSE /\ client' = client
                 /\ Return(t, Ok(<<>>))
  /\ UNCHANGED << cache, store, op, ups_name, body, now, cmds, response,
                  hist >>

\* lines 67-73
gcc_list(t) ==
  /\ pc[t] = "gcc_list"
  /\ \E a \in ListAnswers :
       /\ Invoke(t, "list_instcmds", a.kind)
       /\ cmds' = [cmds EXCEPT ![t] = GCC_OnList(a.ok, a.list, a.kind)]
  /\ Goto(t, "gcc_close")
  /\ UNCHANGED << cache, store, op, ups_name, body, now, client, response,
                  hist >>

\* lines 74-77: close, then COMMAND_CACHE.lock().await
gcc_close(t) ==
  /\ pc[t] = "gcc_close"
  /\ \E outcome \in CloseOutcomes : Invoke(t, "close", outcome)
  /\ client' = [client EXCEPT ![t] = "closed"]
  /\ Goto(t, "gcc_insert_lock")
  /\ UNCHANGED << cache, store, op, ups_name, body, now, cmds, response,
                  hist >>

\* line 77: the mutex is granted
gcc_insert_lock(t) ==
  /\ pc[t] = "gcc_insert_lock"
  /\ mutex = None
  /\ mutex' = Some(t)
  /\ Goto(t, "gcc_insert")
  /\ UNCHANGED << store, locals, hist, command_cache, csnap >>

\* lines 78-79 and 144-155: the insert, and the list as the answer
gcc_insert(t) ==
  /\ pc[t] = "gcc_insert"
  /\ command_cache' = [command_cache EXCEPT ![ups_name[t]] =
       Some([exp |-> GCC_Expiry(now[t], cmds[t]), cmds |-> cmds[t]])]
  /\ csnap' = CSnapAfter(t, command_cache')
  /\ mutex' = None
  /\ Return(t, Ok(cmds[t]))
  /\ UNCHANGED << store, op, ups_name, body, now, client, cmds, response,
                  calls, hist >>

(***************************************************************************)
(* The caller takes the handler's result; time passes.                     *)
(***************************************************************************)
task_return(t) ==
  /\ pc[t] = "done"
  /\ pc' = [pc EXCEPT ![t] = "idle"]
  /\ op' = [op EXCEPT ![t] = ""]
  /\ ups_name' = [ups_name EXCEPT ![t] = ""]
  /\ body' = [body EXCEPT ![t] = NoBody]
  /\ now' = [now EXCEPT ![t] = 0]
  /\ client' = [client EXCEPT ![t] = "none"]
  /\ cmds' = [cmds EXCEPT ![t] = <<>>]
  /\ response' = [response EXCEPT ![t] = ""]
  /\ result' = [result EXCEPT ![t] = NoResult]
  /\ calls' = [calls EXCEPT ![t] = <<>>]
  /\ snap' = [snap EXCEPT ![t] = state]
  /\ csnap' = [csnap EXCEPT ![t] = command_cache]
  /\ UNCHANGED << config, state, lock, clock, latest, lastOk,
                  lastApplied, command_cache, mutex >>

Tick ==
  /\ clock < MaxTime
  /\ clock' = clock + 1
  /\ UNCHANGED << cache, config, state, lock, pc, locals, latest, snap,
                  lastOk, lastApplied >>

(***************************************************************************)
(* Spec: the two tasks refresh and read the command cache of the           *)
(* registered device ups1 concurrently, any number of times.  The clock    *)
(* stands still: nothing checked under Spec reads it.                      *)
(***************************************************************************)
Next ==
  \/ \E t \in Tasks : update_commands_call(t, "ups1")
  \/ \E t \in Tasks : uc_connect(t)
  \/ \E t \in Tasks : uc_list(t)
  \/ \E t \in Tasks : uc_close(t)
  \/ \E t \in Tasks : uc_insert_cache(t)
  \/ \E t \in Tasks : uc_set_device(t)
  \/ \E t \in Tasks : uc_insert_desc(t)
  \/ \E t \in Tasks : get_cached_commands_call(t, "ups1")
  \/ \E t \in Tasks : gc_read_lock(t)
  \/ \E t \in Tasks : gc_read(t)
  \/ \E t \in Tasks : task_return(t)

Spec == Init /\ [][Next]_vars

(***************************************************************************)
(* SpecTime: t1 refreshes ups1 and t2 reads its cached commands while the  *)
(* clock advances; credentials are configured.                             *)
(***************************************************************************)
InitTime ==
  /\ Init
  /\ config.user /\ config.pass

NextTime ==
  \/ update_commands_call("t1", "ups1")
  \/ uc_connect("t1")
  \/ uc_list("t1")
  \/ uc_close("t1")
  \/ uc_insert_cache("t1")
  \/ uc_set_device("t1")
  \/ uc_insert_desc("t1")
  \/ get_cached_commands_call("t2", "ups1")
  \/ gc_read_lock("t2")
  \/ gc_read("t2")
  \/ \E t \in Tasks : task_return(t)
  \/ Tick

SpecTime == InitTime /\ [][NextTime]_vars

(***************************************************************************)
(* SpecHandlers: one task runs the daemon-facing handlers one after the    *)
(* other, under every configuration, for a registered and an unknown       *)
(* device.                                                                 *)
(***************************************************************************)
HandlerNames == {"ups1", "ups3"}
HandlerValues == {Num(1), Text(<<"a">>)}

InitHandlers ==
  /\ config \in Configs
  /\ config.commands_ttl = 0
  /\ state = InitState
  /\ snap = [t \in Tasks |-> InitState]
  /\ InitTasks

NextHandlers ==
  \/ \E name \in HandlerNames : update_commands_call("t1", name)
  \/ uc_connect("t1")
  \/ uc_list("t1")
  \/ uc_close("t1")
  \/ uc_insert_cache("t1")
  \/ uc_set_device("t1")
  \/ uc_insert_desc("t1")
  \/ \E name \in HandlerNames, instcmd \in CmdNames :
       post_command_call("t1", name, instcmd)
  \/ pc_read_lock("t1")
  \/ pc_check("t1")
  \/ pc_connect("t1")
  \/ pc_instcmd("t1")
  \/ pc_close("t1")
  \/ \E name \in HandlerNames : post_fsd_call("t1", name)
  \/ fsd_read_lock("t1")
  \/ fsd_check("t1")
  \/ fsd_connect("t1")
  \/ fsd_fsd("t1")
  \/ fsd_close("t1")
  \/ \E name \in HandlerNames, variable \in {"var.num", "var.ro"},
        value \in HandlerValues :
       patch_var_call("t1", name, variable, value)
  \/ pv_read_lock("t1")
  \/ pv_check("t1")
  \/ pv_connect("t1")
  \/ pv_set_var("t1")
  \/ pv_close("t1")
  \/ \E name \in HandlerNames : get_instcmds_call("t1", name)
  \/ gi_connect("t1")
  \/ gi_list("t1")
  \/ gi_close("t1")
  \/ task_return("t1")

SpecHandlers == InitHandlers /\ [][NextHandlers]_vars

(***************************************************************************)
(* SpecValidate: one task writes variables (patch_var) of the registered   *)
(* devices and of an unknown one, with every value of Values, against a    *)
(* String{max_len} declaration of any max_len up to MaxStrLen.             *)
(***************************************************************************)
InitValidate ==
  /\ config \in Configs
  /\ config.commands_ttl = 0
  /\ config.allow_instcmds_list
  /\ \E max_len \in 0..MaxStrLen :
       /\ state = [InitState EXCEPT !.devices = InitDevices(max_len)]
       /\ snap = [t \in Tasks |-> state]
  /\ InitTasks

NextValidate ==
  \/ \E name \in UpsNames, variable \in VarNames, value \in Values :
       patch_var_call("t1", name, variable, value)
  \/ pv_read_lock("t1")
  \/ pv_check("t1")
  \/ pv_connect("t1")
  \/ pv_set_var("t1")
  \/ pv_close("t1")
  \/ task_return("t1")

SpecValidate == InitValidate /\ [][NextValidate]_vars

(***************************************************************************)
(* SpecCache: one task serves get_ups_by_name for the registered device    *)
(* ups1, with and without include=commands, one request after the other,   *)
(* while the clock advances, under every configuration of the credentials. *)
(***************************************************************************)
Includes == {None, Some("commands")}

InitCache ==
  /\ config \in Configs
  /\ config.commands_ttl = 0
  /\ config.allow_instcmds_list
  /\ state = InitState
  /\ snap = [t \in Tasks |-> InitState]
  /\ InitTasks

NextCache ==
  \/ \E include \in Includes : get_ups_by_name_call("t1", "ups1", include)
  \/ gu_read_lock("t1")
  \/ gu_check("t1")
  \/ gcc_lock("t1")
  \/ gcc_lookup("t1")
  \/ gcc_connect("t1")
  \/ gcc_list("t1")
  \/ gcc_close("t1")
  \/ gcc_insert_lock("t1")
  \/ gcc_insert("t1")
  \/ task_return("t1")
  \/ Tick

SpecCache == InitCache /\ [][NextCache]_vars

(***************************************************************************)
(* SpecLocks: one task runs every handler of SpecHandlers and              *)
(* get_ups_by_name, one request after the other.                           *)
(***************************************************************************)
NextLocks ==
  \/ NextHandlers
  \/ \E name \in HandlerNames, include \in Includes \cup {Some("status")} :
       get_ups_by_name_call("t1", name, include)
  \/ gu_read_lock("t1")
  \/ gu_check("t1")
  \/ gcc_lock("t1")
  \/ gcc_lookup("t1")
  \/ gcc_connect("t1")
  \/ gcc_list("t1")
  \/ gcc_close("t1")
  \/ gcc_insert_lock("t1")
  \/ gcc_insert("t1")

SpecLocks == InitHandlers /\ [][NextLocks]_vars

(***************************************************************************)
(* SpecCommand: t1 sends instant commands (post_command) to the registered *)
(* device ups1 and to an unknown device while t2 refreshes the commands of *)
(* ups1, under every configuration of the credentials.                     *)
(***************************************************************************)
InitCommand ==
  /\ config \in Configs
  /\ config.commands_ttl = 0
  /\ config.allow_instcmds_list
  /\ state = InitState
  /\ snap = [t \in Tasks |-> InitState]
  /\ InitTasks

NextCommand ==
  \/ \E name \in HandlerNames, instcmd \in CmdNames :
       post_command_call("t1", name, instcmd)
  \/ pc_read_lock("t1")
  \/ pc_check("t1")
  \/ pc_connect("t1")
  \/ pc_instcmd("t1")
  \/ pc_close("t1")
  \/ update_commands_call("t2", "ups1")
  \/ uc_connect("t2")
  \/ uc_list("t2")
  \/ uc_close("t2")
  \/ uc_insert_cache("t2")
  \/ uc_set_device("t2")
  \/ uc_insert_desc("t2")
  \/ \E t \in Tasks : task_return(t)

SpecCommand == InitCommand /\ [][NextCommand]_vars

(***************************************************************************)
(* The claims.                                                             *)
(***************************************************************************)
Ids(list) == {list[i].id : i \in 1..Len(list)}

HasAuth == config.user /\ config.pass

FailedCall(t, fns) ==
  \E i \in 1..Len(calls[t]) : calls[t][i].fn \in fns /\ ~calls[t][i].ok

\* an update_commands call that ended after missing credentials, a connect
\* failure or a list_instcmds failure
FailedRefresh(t) ==
  /\ op[t] = "update_commands"
  /\ pc[t] = "done"
  /\ ~HasAuth \/ FailedCall(t, {"connect", "list_instcmds"})

\* C1: a failed update_commands returns an error and leaves the store
\* (commands_cache, every device's command-id set, shared_desc) as it was
\* apart from what other tasks wrote.
C1_FailedRefreshKeepsStore ==
  \A t \in Tasks : FailedRefresh(t) => result[t].tag = "Err" /\ state = snap[t]

\* a list_instcmds failure of a refresh of a device whose list is cached
C1_Witness ==
  \E t \in Tasks :
    /\ FailedRefresh(t)
    /\ FailedCall(t, {"list_instcmds"})
    /\ IsSome(state.commands_cache[ups_name[t]])
    /\ Unwrap(state.commands_cache[ups_name[t]]).commands # <<>>

\* C2: outside a write section, the command-id set of a registered device
\* that has been refreshed is exactly the set of ids of the list its most
\* recent successful update_commands returned.
C2_FullReplace ==
  \A n \in UpsNames :
    (lock.writer = None /\ IsSome(state.devices[n]) /\ IsSome(lastOk[n]))
      => Unwrap(state.devices[n]).commands = Ids(Unwrap(lastOk[n]))

\* the set {c1} the device started with has been replaced by {c2}
C2_Witness ==
  /\ lock.writer = None
  /\ lastOk["ups1"] = Some(<<InstCmd("c2", "d2")>>)
  /\ Unwrap(state.devices["ups1"]).commands = {"c2"}

\* C3: once no request is in flight, the cache entry and the command-id set
\* of a device hold the answer of the latest list_instcmds for it.
C3_NoStaleOverwrite ==
  (\A t \in Tasks : pc[t] \in {"idle", "done"})
    => \A n \in UpsNames :
         IsSome(latest[n])
           => /\ IsSome(state.commands_cache[n])
              /\ Unwrap(state.commands_cache[n]).commands = Unwrap(latest[n])
              /\ IsSome(state.devices[n])
                   => Unwrap(state.devices[n]).commands = Ids(Unwrap(latest[n]))

InReadSection(t) == pc[t] \in {"gc_read", "pc_check", "fsd_check", "pv_check"}
InWriteSection(t) == pc[t] \in {"uc_w_dev", "uc_w_desc"}

\* every effect of the refresh whose write section began last is in the store
AppliedWhole ==
  IsSome(lastApplied) =>
    LET r == Unwrap(lastApplied) IN
    /\ IsSome(state.commands_cache[r.ups])
    /\ Unwrap(state.commands_cache[r.ups]).commands = r.cmds
    /\ IsSome(state.devices[r.ups])
         => Unwrap(state.devices[r.ups]).commands = Ids(r.cmds)
    /\ \A i \in 1..Len(r.cmds) :
         state.shared_desc[r.cmds[i].id] = Some(r.cmds[i].desc)

\* C4: a write section overlaps no other write section and no read section,
\* and while a task is in a read section no refresh is half applied.
C4_NoTornRead ==
  /\ \A t, u \in Tasks :
       (t # u /\ InWriteSection(t)) => ~InWriteSection(u) /\ ~InReadSection(u)
  /\ (\E t \in Tasks : InReadSection(t)) => AppliedWhole

\* a reader in its read section after a refresh, another refresh waiting
C4_Witness ==
  \E t, u \in Tasks :
    /\ pc[t] = "gc_read"
    /\ pc[u] = "uc_write"
    /\ IsSome(lastApplied)
    /\ Unwrap(lastApplied).cmds # cmds[u]

\* C5: get_cached_commands returns the cached sequence as the refresh stored
\* it, and is_stale exactly when now >= fetched_at + ttl, for every call
\* whose now is not earlier than fetched_at (and for every call when
\* ttl > 0); the passing of time alone changes nothing in the store.
C5_Staleness ==
  [][ /\ clock' # clock => state' = state
      /\ \A t \in Tasks :
           ( /\ pc[t] = "gc_read"
             /\ pc'[t] = "done"
             /\ IsSome(state.commands_cache[ups_name[t]]) )
             => LET entry == Unwrap(state.commands_cache[ups_name[t]])
                    ttl == config.commands_ttl
                IN /\ result'[t].value[1] = entry.commands
                   /\ (now[t] >= entry.fetched_at \/ ttl > 0)
                        => ( result'[t].value[2]
                               <=> now[t] >= entry.fetched_at + ttl )
    ]_vars

\* a non-empty cached list returned as stale under a ttl of 1
C5_Witness ==
  \E t \in Tasks :
    /\ pc[t] = "done"
    /\ op[t] = "get_cached_commands"
    /\ config.commands_ttl = 1
    /\ result[t].value[1] # <<>>
    /\ result[t].value[2]

DaemonFacing == {"update_commands", "patch_var", "post_command", "post_fsd"}

\* C6: with the user or the password missing, a refresh, a variable write,
\* an instant command and a forced shutdown each return the "Insufficient
\* upsd configuration" problem (unauthorized) at once, without any call of
\* the Protocol Client.
C6_MissingCredentials ==
  \A t \in Tasks :
    (~HasAuth /\ op[t] \in DaemonFacing)
      => /\ pc[t] = "done"
         /\ result[t].tag = "Err"
         /\ result[t].problem.title = "Insufficient upsd configuration"
         /\ result[t].problem.status = UNAUTHORIZED
         /\ calls[t] = <<>>
         /\ client[t] = "none"

\* a variable write refused because only the password is missing
C6_Witness ==
  \E t \in Tasks :
    /\ op[t] = "patch_var"
    /\ pc[t] = "done"
    /\ ~config.user
    /\ config.pass

Validation(t) ==
  ValidateVar(state, ups_name[t], body[t].variable, body[t].value)

\* C7: a patch_var whose device is unknown, whose variable has no VarDetail
\* or whose value fails the rule returns the validator's problem and has
\* called the Protocol Client not at all; whenever patch_var has called,
\* or is about to call, the Protocol Client, the validator accepted.
C7_ValidationBeforeClient ==
  \A t \in Tasks :
    op[t] = "patch_var" =>
      /\ ( \/ calls[t] # <<>>
           \/ client[t] # "none"
           \/ pc[t] \in {"pv_connect", "pv_set_var", "pv_close"} )
           => Validation(t).tag = "Ok"
      /\ (pc[t] = "done" /\ HasAuth /\ Validation(t).tag = "Err")
           => /\ result[t].tag = "Err"
              /\ result[t].problem = Validation(t).problem
              /\ calls[t] = <<>>

\* an out-of-range write returned without a call
C7_Witness ==
  \E t \in Tasks :
    /\ op[t] = "patch_var"
    /\ pc[t] = "done"
    /\ HasAuth
    /\ Validation(t).tag = "Err"
    /\ Validation(t).problem.title = "Out of range"
    /\ calls[t] = <<>>

AccessDeniedAt(t, fns) ==
  \E i \in 1..Len(calls[t]) :
    calls[t][i].fn \in fns /\ calls[t][i].kind = "AccessDenied"

C9_SessionClosed ==
  \A t \in Tasks :
    pc[t] = "done" =>
      /\ client[t] \in {"none", "closed"}
      /\ ( /\ FailedCall(t, {"close"})
           /\ ~FailedCall(t, {"connect", "list_instcmds", "instcmd", "set_var", "fsd"}) )
           => result[t].tag = "Ok"

\* the declared String{max_len} of the variable a patch_var names, if any
StringRule(t) ==
  IF op[t] = "patch_var" /\ IsSome(state.devices[ups_name[t]])
    THEN LET detail ==
               Unwrap(state.devices[ups_name[t]]).rw_variables[body[t].variable]
         IN IF IsSome(detail) /\ Unwrap(detail).kind = "String"
              THEN detail
              ELSE None
    ELSE None

Rejected(t, title) ==
  /\ result[t].tag = "Err"
  /\ result[t].problem.title = title
  /\ calls[t] = <<>>

\* C10: for a variable declared String{max_len}, patch_var rejects a
\* non-text value as "Invalid value type", a text that is empty after
\* trimming as "Empty value", a text whose untrimmed length exceeds max_len
\* as "Out of range" with max_len in the detail, and accepts every other
\* text (it goes on to the Protocol Client).
C10_StringRule ==
  \A t \in Tasks :
    (pc[t] = "done" /\ HasAuth /\ IsSome(StringRule(t))) =>
      LET max_len == Unwrap(StringRule(t)).max_len
          value == body[t].value
      IN CASE ~is_text(value) -> Rejected(t, "Invalid value type")
           [] is_text(value) /\ Trim(value.text) = <<>> ->
                Rejected(t, "Empty value")
           [] is_text(value) /\ Trim(value.text) # <<>>
                /\ Len(value.text) > max_len ->
                /\ Rejected(t, "Out of range")
                /\ result[t].problem.detail.args = <<max_len>>
           [] OTHER -> calls[t] # <<>>

\* the VarDetail a patch_var's device declares for the variable, if any
Declared(t) ==
  IF op[t] = "patch_var" /\ IsSome(state.devices[ups_name[t]])
    THEN Unwrap(state.devices[ups_name[t]]).rw_variables[body[t].variable]
    ELSE None

DeclaredAs(t, kind) == IsSome(Declared(t)) /\ Unwrap(Declared(t)).kind = kind

\* the validator let the request through: the handler went on to connect
Accepted(t) == calls[t] # <<>> /\ calls[t][1].fn = "connect"

RejectedWith(t, title, status) ==
  /\ Rejected(t, title)
  /\ result[t].problem.status = status

\* C11: for a variable declared Range{min, max}, patch_var rejects a
\* non-numeric value as "Invalid value type" (bad request); for a numeric
\* value it answers "Malformed driver response" (internal server error)
\* when min or max is no number, accepts the value when min <= value <= max
\* and otherwise rejects it as "Out of range" (bad request) with min and
\* max in the detail.
C11_RangeRule ==
  \A t \in Tasks :
    (pc[t] = "done" /\ HasAuth /\ DeclaredAs(t, "Range")) =>
      LET min == Unwrap(Declared(t)).min
          max == Unwrap(Declared(t)).max
          value == body[t].value
      IN CASE value.kind # "num" ->
                RejectedWith(t, "Invalid value type", BAD_REQUEST)
           [] value.kind = "num" /\ (min.kind # "num" \/ max.kind # "num") ->
                RejectedWith(t, "Malformed driver response",
                             INTERNAL_SERVER_ERROR)
           [] value.kind = "num" /\ min.kind = "num" /\ max.kind = "num"
                /\ min.num <= value.num /\ value.num <= max.num ->
                Accepted(t)
           [] OTHER ->
                /\ RejectedWith(t, "Out of range", BAD_REQUEST)
                /\ result[t].problem.detail.args = <<min.num, max.num>>

\* a write of the upper bound itself went on to the daemon
C11_Witness ==
  \E t \in Tasks :
    /\ pc[t] = "done"
    /\ HasAuth
    /\ DeclaredAs(t, "Range")
    /\ body[t].value = Unwrap(Declared(t)).max
    /\ Accepted(t)

\* C12: for a variable declared Enum{options}, patch_var accepts the value
\* exactly when it is a member of options; any other value is rejected as
\* "Invalid option" (bad request) with the options in the detail and
\* without a call of the Protocol Client.
C12_EnumRule ==
  \A t \in Tasks :
    (pc[t] = "done" /\ HasAuth /\ DeclaredAs(t, "Enum")) =>
      LET options == Unwrap(Declared(t)).options IN
      IF \E o \in options : o = body[t].value
        THEN Accepted(t)
        ELSE /\ RejectedWith(t, "Invalid option", BAD_REQUEST)
             /\ result[t].problem.detail.args = <<options>>

\* a number that is no option, of an enum that has a number option, refused
C12_Witness ==
  \E t \in Tasks :
    /\ pc[t] = "done"
    /\ HasAuth
    /\ DeclaredAs(t, "Enum")
    /\ body[t].value.kind = "num"
    /\ body[t].value \notin Unwrap(Declared(t)).options
    /\ \E o \in Unwrap(Declared(t)).options : o.kind = "num"
    /\ Rejected(t, "Invalid option")

\* C13: with credentials configured, patch_var answers an unknown device
\* with "Device not found" (not found) whatever the variable and the value
\* are, and answers a variable without VarDetail of a known device with
\* "Invalid RW variable" (bad request) whatever the value is.
C13_ValidatorPrecedence ==
  \A t \in Tasks :
    (pc[t] = "done" /\ HasAuth /\ op[t] = "patch_var") =>
      /\ state.devices[ups_name[t]] = None
           => RejectedWith(t, "Device not found", NOT_FOUND)
      /\ ( /\ state.devices[ups_name[t]] # None
           /\ Unwrap(state.devices[ups_name[t]]).rw_variables[body[t].variable]
                = None )
           => RejectedWith(t, "Invalid RW variable", BAD_REQUEST)

\* an unknown device named together with a variable no device declares
C13_Witness ==
  \E t \in Tasks :
    /\ pc[t] = "done"
    /\ HasAuth
    /\ op[t] = "patch_var"
    /\ state.devices[ups_name[t]] = None
    /\ body[t].variable = "var.ro"
    /\ result[t].problem.title = "Device not found"

\* the description a list upserts last for key k
LastDesc(list, k) ==
  LET last == CHOOSE i \in 1..Len(list) :
                /\ list[i].id = k
                /\ \A j \in (i + 1)..Len(list) : list[j].id # k
  IN list[last].desc

DescKeys(s) == {k \in CmdNames : IsSome(s.shared_desc[k])}

\* C15: every step keeps every key of the description pool (its size never
\* decreases); the step of a refresh that upserts its descriptions leaves
\* each upserted key with the description that refresh gave it last and
\* every other key as it was; no other step changes the pool.
C15_DescriptionPool ==
  [][ /\ DescKeys(state) \subseteq DescKeys(state')
      /\ Cardinality(DescKeys(state')) >= Cardinality(DescKeys(state))
      /\ \A t \in Tasks :
           (pc[t] = "uc_w_desc" /\ pc'[t] = "done") =>
             \A k \in CmdNames :
               state'.shared_desc[k] =
                 IF k \in Ids(cmds[t])
                   THEN Some(LastDesc(cmds[t], k))
                   ELSE state.shared_desc[k]
      /\ (\A t \in Tasks : ~(pc[t] = "uc_w_desc" /\ pc'[t] = "done"))
           => state'.shared_desc = state.shared_desc
    ]_vars

\* two refreshes gave c1 different descriptions; the pool holds the second
C15_Witness ==
  \E t, u \in Tasks :
    /\ pc[t] = "done" /\ result[t].tag = "Ok"
    /\ pc[u] = "done" /\ result[u].tag = "Ok"
    /\ op[t] = "update_commands" /\ op[u] = "update_commands"
    /\ InstCmd("c1", "d1") \in {cmds[t][i] : i \in 1..Len(cmds[t])}
    /\ InstCmd("c1", "d2") \in {cmds[u][i] : i \in 1..Len(cmds[u])}
    /\ state.shared_desc["c1"] = Some("d2")
    /\ state.shared_desc["c2"] = Some("d1")

\* C16: the step of a successful refresh that replaces a device's cache
\* entry stores a fetched_at greater than the one it replaces, and an
\* entry's commands never change while its fetched_at stays the same.
C16_FetchedAtIncreases ==
  [][ \A n \in UpsNames :
        LET old == state.commands_cache[n]
            new == state'.commands_cache[n]
        IN /\ ( /\ IsSome(old)
                /\ \E t \in Tasks : /\ pc[t] = "uc_write"
                                     /\ pc'[t] = "uc_w_dev"
                                     /\ ups_name[t] = n )
                => Unwrap(new).fetched_at > Unwrap(old).fetched_at
           /\ (IsSome(old) /\ new # old)
                => Unwrap(new).fetched_at # Unwrap(old).fetched_at
    ]_vars

\* C17: every step of get_cached_commands leaves the store as it is and
\* calls the Protocol Client not at all; it returns a value, never an
\* error, and for a device without a cache entry that value is the empty
\* sequence with is_stale = TRUE.
C17_PureRead ==
  [][ \A t \in Tasks :
        (op'[t] = "get_cached_commands" /\ pc'[t] # pc[t]) =>
          /\ state' = state
          /\ calls'[t] = <<>>
          /\ client'[t] = "none"
          /\ pc'[t] = "done" =>
               /\ result'[t].tag = "Val"
               /\ state.commands_cache[ups_name[t]] = None
                    => result'[t].value = << <<>>, TRUE >>
    ]_vars

\* a read of a device no refresh has succeeded for
C17_Witness ==
  \E t \in Tasks :
    /\ op[t] = "get_cached_commands"
    /\ pc[t] = "done"
    /\ state.commands_cache[ups_name[t]] = None
    /\ result[t].value = << <<>>, TRUE >>

\* C19: an update_commands whose connect or list_instcmds failed made no
\* call after the failing one (connect alone, or connect and
\* list_instcmds, each once) and returns the problem of the failure's
\* kind: access denied -> "Access denied" (unauthorized), unknown device ->
\* "Device not found" (not found), I/O failure or timeout -> "UPS daemon
\* unreachable" (bad gateway), any other kind -> the error's own
\* conversion.
C19_ErrorMapping ==
  \A t \in Tasks :
    ( /\ pc[t] = "done"
      /\ op[t] = "update_commands"
      /\ FailedCall(t, {"connect", "list_instcmds"}) ) =>
      LET n == Len(calls[t])
          kind == calls[t][n].kind
      IN /\ [i \in 1..n |-> calls[t][i].fn]
              \in {<<"connect">>, <<"connect", "list_instcmds">>}
         /\ ~calls[t][n].ok
         /\ \A i \in 1..(n - 1) : calls[t][i].ok
         /\ result[t].tag = "Err"
         /\ result[t].problem =
              CASE kind = "AccessDenied" ->
                     ProblemDetail("Access denied", UNAUTHORIZED)
                [] kind = "UnknownUps" ->
                     ProblemDetail("Device not found", NOT_FOUND)
                [] kind = "IOError" ->
                     ProblemDetail("UPS daemon unreachable", BAD_GATEWAY)
                [] kind = "RequestTimeout" ->
                     ProblemDetail("UPS daemon unreachable", BAD_GATEWAY)
                [] OTHER -> ErrorInto(kind)

\* a connect that failed because the daemon does not know the device
C19_Witness ==
  \E t \in Tasks :
    /\ pc[t] = "done"
    /\ op[t] = "update_commands"
    /\ calls[t] = <<Call("connect", "UnknownUps")>>
    /\ result[t].problem.status = NOT_FOUND

\* a get_ups_by_name of a registered device that has returned
Served(t) ==
  /\ pc[t] = "done"
  /\ op[t] = "get_ups_by_name"
  /\ IsSome(state.devices[ups_name[t]])

\* the request is not forced and the entry it found expires after its now
FastCase(t) ==
  /\ body[t].include # Some("commands")
  /\ IsSome(csnap[t][ups_name[t]])
  /\ Unwrap(csnap[t][ups_name[t]]).exp > now[t]

\* C14: get_commands_cached answers with the cached list and without any
\* call of the Protocol Client when the request is not forced and the
\* device's entry has not expired; in every other case with credentials
\* configured, a forced request with a fresh entry included, it connects
\* to the daemon.
C14_FastPath ==
  \A t \in Tasks :
    Served(t) =>
      IF FastCase(t)
        THEN /\ result[t].tag = "Ok"
             /\ result[t].value = Unwrap(csnap[t][ups_name[t]]).cmds
             /\ calls[t] = <<>>
             /\ client[t] = "none"
        ELSE HasAuth => calls[t] # <<>> /\ calls[t][1].fn = "connect"

\* a forced request went to the daemon although the entry was fresh
C14_Witness ==
  \E t \in Tasks :
    /\ Served(t)
    /\ body[t].include = Some("commands")
    /\ IsSome(csnap[t][ups_name[t]])
    /\ Unwrap(csnap[t][ups_name[t]]).exp > now[t]
    /\ Unwrap(csnap[t][ups_name[t]]).cmds # <<>>
    /\ calls[t] # <<>>

\* C18: a get_commands_cached that went for a refresh and failed (no
\* credentials, connect failed, or list_instcmds failed) leaves the
\* device's COMMAND_CACHE entry as it was.
C18_FailedRefreshKeepsCache ==
  \A t \in Tasks :
    ( /\ Served(t)
      /\ ~FastCase(t)
      /\ ~HasAuth \/ FailedCall(t, {"connect", "list_instcmds"}) )
      => command_cache[ups_name[t]] = csnap[t][ups_name[t]]

\* C20: a task whose Protocol Client call completes in a step held, on
\* entering the step and on leaving it, neither a read nor the write
\* section of the store nor the mutex of COMMAND_CACHE.
C20_NoLockAcrossCall ==
  [][ \A t \in Tasks :
        Len(calls'[t]) > Len(calls[t]) =>
          /\ t \notin lock.readers /\ t \notin lock'.readers
          /\ lock.writer # Some(t) /\ lock'.writer # Some(t)
          /\ mutex # Some(t) /\ mutex' # Some(t)
    ]_vars

\* a request that took the read section and the mutex before its calls
C20_Witness ==
  \E t \in Tasks :
    /\ Served(t)
    /\ body[t].include = None
    /\ Len(calls[t]) = 3
    /\ lock = [writer |-> None, readers |-> {}]
    /\ mutex = None

\* the Protocol Client functions a task has called, in order
Fns(t) == [i \in 1..Len(calls[t]) |-> calls[t][i].fn]

\* C21: refreshes are not deduplicated: with credentials configured every
\* update_commands makes its own connect, whatever the other tasks are
\* doing, and one that returns Ok has made its own connect, list_instcmds
\* and close.
C21_NoDeduplication ==
  \A t \in Tasks :
    (op[t] = "update_commands" /\ HasAuth /\ pc[t] = "done") =>
      /\ calls[t] # <<>>
      /\ calls[t][1].fn = "connect"
      /\ result[t].tag = "Ok"
           => Fns(t) = <<"connect", "list_instcmds", "close">>

\* two refreshes of the same device, each with its own session open and
\* its own list_instcmds answered
C21_Witness ==
  \E t, u \in Tasks :
    /\ t # u
    /\ op[t] = "update_commands" /\ op[u] = "update_commands"
    /\ ups_name[t] = ups_name[u]
    /\ client[t] = "open" /\ client[u] = "open"
    /\ Fns(t) = <<"connect", "list_instcmds">>
    /\ Fns(u) = <<"connect", "list_instcmds">>

\* the command of a post_command is in its device's command-id set
CommandListed(t) ==
  /\ IsSome(state.devices[ups_name[t]])
  /\ body[t].instcmd \in Unwrap(state.devices[ups_name[t]]).commands

\* C22 as stated: while post_command's instcmd is with the daemon the
\* device is registered and the command is in its command-id set; a
\* post_command that returned without a daemon call answered "Invalid
\* INSTCMD" for a command outside the set and "Device not found" for an
\* unknown device.
C22_CommandListedAtIssue ==
  \A t \in Tasks :
    op[t] = "post_command" =>
      /\ pc[t] = "pc_instcmd" => CommandListed(t)
      /\ (pc[t] = "done" /\ HasAuth /\ calls[t] = <<>>) =>
           /\ result[t].tag = "Err"
           /\ result[t].problem.title \in {"Invalid INSTCMD", "Device not found"}
           /\ result[t].problem.title = "Device not found"
                <=> state.devices[ups_name[t]] = None

\* C22 as amended: post_command goes on to connect only from its read
\* section and only when the device is registered and the command is in
\* the device's command-id set there; it issues instcmd only after that
\* connect; from its read section it otherwise returns "Device not found"
\* (not found) for an unknown device and "Invalid INSTCMD" (bad request)
\* for a command outside the set, with no daemon call.
C22_CommandListedAtCheck ==
  [][ \A t \in Tasks :
        op'[t] = "post_command" =>
          /\ (pc'[t] = "pc_connect" /\ pc[t] # "pc_connect") =>
               /\ pc[t] = "pc_check"
               /\ t \in lock.readers
               /\ CommandListed(t)
          /\ (pc'[t] = "pc_instcmd" /\ pc[t] # "pc_instcmd") =>
               /\ pc[t] = "pc_connect"
               /\ Fns(t) = <<>>
          /\ (pc[t] = "pc_check" /\ pc'[t] = "done") =>
               /\ ~CommandListed(t)
               /\ calls'[t] = <<>>
               /\ result'[t].tag = "Err"
               /\ result'[t].problem =
                    IF state.devices[ups_name[t]] = None
                      THEN ProblemDetail("Device not found", NOT_FOUND)
                      ELSE ProblemDetail("Invalid INSTCMD", BAD_REQUEST)
    ]_vars

\* an instcmd went to the daemon for a command that a refresh, finished
\* after the check, has taken out of the device's set
C22_Witness ==
  \E t, u \in Tasks :
    /\ op[t] = "post_command"
    /\ Fns(t) = <<"connect", "instcmd">>
    /\ ~CommandListed(t)
    /\ op[u] = "update_commands"
    /\ pc[u] = "done"
    /\ result[u].tag = "Ok"

\* C23: a successful update_commands for name n has stored the cache entry
\* of n with the fetched list and upserted the list's descriptions; when n
\* is not in the registry it has made no DeviceEntry for it; and it has
\* left the DeviceEntry and the cache entry of every other name as they
\* were.
C23_RefreshFrame ==
  \A t \in Tasks :
    (pc[t] = "done" /\ op[t] = "update_commands" /\ result[t].tag = "Ok") =>
      LET n == ups_name[t]
          before == snap[t]
      IN /\ IsSome(state.commands_cache[n])
         /\ Unwrap(state.commands_cache[n]).commands = cmds[t]
         /\ \A k \in Ids(cmds[t]) :
              state.shared_desc[k] = Some(LastDesc(cmds[t], k))
         /\ before.devices[n] = None => state.devices[n] = None
         /\ \A m \in UpsNames \ {n} :
              /\ state.devices[m] = before.devices[m]
              /\ state.commands_cache[m] = before.commands_cache[m]

\* a refresh of the unregistered ups3 after ups1 has been refreshed
C23_Witness ==
  \E t \in Tasks :
    /\ pc[t] = "done"
    /\ op[t] = "update_commands"
    /\ result[t].tag = "Ok"
    /\ ups_name[t] = "ups3"
    /\ cmds[t] # <<>>
    /\ state.devices["ups3"] = None
    /\ IsSome(state.commands_cache["ups3"])
    /\ IsSome(state.commands_cache["ups1"])

====
